---- MODULE Spec2Model ----
(***************************************************************************)
(* al_decorators: signature_decorator_factory, SignatureDecorator,         *)
(* SignatureDecorator.factory, dynamic_defaults and defaultproperty.        *)
(*                                                                         *)
(* Argument values are integers.  0 stands for "no entry" wherever a      *)
(* mapping is read with a key it does not hold; every real value is        *)
(* positive.  The values of a defaultproperty are strings.                 *)
(* A mapping (BoundArguments.arguments, **kw, a call's keywords) is a      *)
(* function whose domain is a set of parameter names.                      *)
(***************************************************************************)
EXTENDS Integers, Sequences, FiniteSets, TLC

\* ------------------------------------------------------------------ bounds
\* The most positional arguments a call passes.
MaxPos == 2
\* The most calls of decorated functions in one run.
MaxCalls == 2
\* The most decorations in one run.
MaxWrappers == 2

\* ------------------------------------------------- mappings and signatures
EmptyMap == [n \in {} |-> 0]

Put(m, k, v) == [n \in (DOMAIN m) \cup {k} |-> IF n = k THEN v ELSE m[n]]

Get(m, k) == IF k \in DOMAIN m THEN m[k] ELSE 0

Param(n, k, d) == [name |-> n, kind |-> k, default |-> d]

\* The functions that get decorated.  kind "pk" is POSITIONAL_OR_KEYWORD,
\* "ko" is KEYWORD_ONLY; default 0 is "no declared default".
\*   f(a, b=2)         g(b=4, *, c=3)
Funcs == {"f", "g"}

\* inspect.signature(func): the ordered parameters of func.
signature(func) ==
    CASE func = "f" -> << Param("a", "pk", 0), Param("b", "pk", 2) >>
      [] func = "g" -> << Param("b", "pk", 4), Param("c", "ko", 3) >>

\* Signature.parameters: the parameter names.
parameters(sig) == { sig[i].name : i \in 1..Len(sig) }

\* The number of leading parameters that take a positional argument.
NumPositional(sig) == Cardinality({ i \in 1..Len(sig) : sig[i].kind = "pk" })

\* Signature.bind succeeds: no surplus positional argument, no unknown
\* keyword, no parameter given twice, no required parameter left out.
CanBind(sig, pos, kws) ==
    /\ Len(pos) <= NumPositional(sig)
    /\ DOMAIN kws \subseteq parameters(sig)
    /\ \A i \in 1..Len(sig) : ~(i <= Len(pos) /\ sig[i].name \in DOMAIN kws)
    /\ \A i \in 1..Len(sig) :
          sig[i].default = 0 => (i <= Len(pos) \/ sig[i].name \in DOMAIN kws)

\* Signature.bind: BoundArguments.arguments holds the supplied parameters only.
bind(sig, pos, kws) ==
    [ n \in { sig[i].name : i \in 1..Len(pos) } \cup DOMAIN kws |->
        IF n \in DOMAIN kws THEN kws[n]
        ELSE pos[CHOOSE i \in 1..Len(pos) : sig[i].name = n] ]

\* BoundArguments.apply_defaults: every parameter that is absent and has a
\* declared default gets it.
apply_defaults_to(sig, arguments) ==
    [ n \in (DOMAIN arguments) \cup
            { sig[i].name : i \in { j \in 1..Len(sig) : sig[j].default # 0 } } |->
        IF n \in DOMAIN arguments THEN arguments[n]
        ELSE sig[CHOOSE i \in 1..Len(sig) : sig[i].name = n].default ]

\* BoundArguments.args: the leading positional parameters that are present,
\* up to the first absent one.
RECURSIVE ArgsFrom(_, _, _)
ArgsFrom(sig, arguments, i) ==
    IF i > Len(sig) \/ sig[i].kind = "ko" \/ sig[i].name \notin DOMAIN arguments
    THEN << >>
    ELSE << arguments[sig[i].name] >> \o ArgsFrom(sig, arguments, i + 1)

ba_args(sig, arguments) == ArgsFrom(sig, arguments, 1)

\* BoundArguments.kwargs: the present parameters after those args took.
\* Entries of arguments that name no parameter of sig are not passed on.
ba_kwargs(sig, arguments) ==
    LET taken == Len(ba_args(sig, arguments))
        names == { sig[i].name : i \in (taken + 1)..Len(sig) } \cap DOMAIN arguments
    IN  [ n \in names |-> arguments[n] ]

\* func(*ba.args, **ba.kwargs): the parameter values func's body runs with,
\* or the empty mapping when the call is a TypeError.
CallOK(func, sig, arguments) ==
    CanBind(signature(func), ba_args(sig, arguments), ba_kwargs(sig, arguments))

CallValues(func, sig, arguments) ==
    apply_defaults_to(signature(func),
        bind(signature(func), ba_args(sig, arguments), ba_kwargs(sig, arguments)))


\* -------------------------------------------------------------- the state
VARIABLES
    callbacks,        \* *callbacks given to the decorator constructors
    apply_defaults,   \* apply_defaults given to the decorator constructors
    apply_self,       \* apply_self given to SignatureDecorator / factory
    decorator,        \* which constructor made the decorator of this run
    kw,               \* dynamic_defaults(**kw), as the sequence kw.items()
    insts,            \* the SignatureDecorator instances created so far
    wrappers,         \* the decorations made so far and what each produced
    frames,           \* the calls of decorated functions made so far
    threaded,         \* whether the host program calls from several threads
    attrs,            \* defaultproperty: the attributes set on each object
    env,              \* defaultproperty: what the decorated functions read
    assigned,         \* defaultproperty: what was last assigned, per object
    last              \* defaultproperty: the last operation and its result

vars == << callbacks, apply_defaults, apply_self, decorator, kw,
           insts, wrappers, frames, threaded, attrs, env, assigned, last >>

\* What neither a decoration nor a step of a call changes.
config == << callbacks, apply_defaults, apply_self, decorator, kw, threaded,
            attrs, env, assigned, last >>

\* What no operation on a defaultproperty changes.
decorators == << callbacks, apply_defaults, apply_self, decorator, kw,
                insts, wrappers, frames, threaded >>

\* What a callback does with the bound arguments it is handed:
\*   "set"   sets b to 99 when b is absent     "put"   sets b to 88
\*   "get"   reads b                           "call"  calls the decorated
\*   "raise" raises                                    function again, unless
\*                                                     it runs in such a call
\*   "update" is dynamic_defaults.update
CallbackLists ==
    { << "set" >>, << "get", "set" >>, << "set", "put", "get" >>,
      << "set", "call", "get" >>, << "get", "raise", "set" >> }

\* The values dynamic_defaults is configured with: 40 is a literal that is
\* not callable, 50 a provider that returns 51 or 52, 60 a provider that
\* raises, 70 a provider that calls the decorated function and returns 71.
KwLists ==
    { << <<"b", 50>> >>, << <<"b", 60>> >>, << <<"b", 40>> >>,
      << <<"b", 70>> >>, << <<"a", 50>> >>,
      << <<"b", 60>>, <<"c", 50>> >>, << <<"c", 40>>, <<"b", 70>> >> }

\* The actual arguments of a call: the first MaxPos positional values are
\* 1, 5, 9, ...; at most one keyword.
PosValues(n) == [ i \in 1..n |-> 4 * i - 3 ]

KeywordInputs == { EmptyMap, [n \in {"b"} |-> 6], [n \in {"c"} |-> 7] }

\* SignatureDecorator.__init__
NewInstance ==
    [ func |-> "", signature |-> "", boundarguments |-> 0, isset |-> FALSE ]

NoArguments == [ sig |-> "", arguments |-> EmptyMap ]

\* The host program constructs one decorator:
\*   signature_decorator_factory(*callbacks, apply_defaults=...), which hands
\*       its callbacks the BoundArguments,
\*   SignatureDecorator(*callbacks, apply_defaults=..., apply_self=...),
\*   SignatureDecorator.factory(*callbacks, apply_defaults=..., apply_self=...),
\*   dynamic_defaults(**kw), which is SignatureDecorator.factory(update,
\*       apply_defaults = False, apply_self = True, ondecoration = ondecoration).
Configured ==
    /\ \/ /\ decorator = "signature_decorator_factory"
          /\ callbacks \in CallbackLists
          /\ apply_defaults \in BOOLEAN
          /\ apply_self = FALSE
          /\ kw = << >>
       \/ /\ decorator \in {"SignatureDecorator", "SignatureDecorator.factory"}
          /\ callbacks \in CallbackLists
          /\ apply_defaults \in BOOLEAN
          /\ apply_self \in BOOLEAN
          /\ kw = << >>
       \/ /\ decorator = "dynamic_defaults"
          /\ callbacks = << "update" >>
          /\ apply_defaults = FALSE
          /\ apply_self = TRUE
          /\ kw \in KwLists
    /\ insts = IF decorator = "SignatureDecorator" THEN << NewInstance >> ELSE << >>
    /\ wrappers = << >>
    /\ frames = << >>

\* No defaultproperty is in use.
NoProperty ==
    /\ attrs = << >> /\ env = 0 /\ assigned = << >> /\ last = << >>

\* The library starts no thread: one thread of control, in which a callback
\* or a provider may still call the decorated function again.
Init == Configured /\ threaded = FALSE /\ NoProperty

\* The host program calls the decorated functions from several threads:
\* calls of a function decorated through SignatureDecorator.factory, which
\* share the SignatureDecorator made for the function, overlap.
InitThreads ==
    /\ Configured
    /\ decorator \in {"SignatureDecorator.factory", "dynamic_defaults"}
    /\ ~apply_defaults
    /\ threaded = TRUE
    /\ NoProperty

\* ------------------------------------------------------------- decoration
\* SignatureDecorator.__call__ refuses a second function.
Refuses(inst) == inst.isset

\* SignatureDecorator.__call__ on an instance that accepts func.
Applied(inst, func) == [ inst EXCEPT !.func = func, !.signature = func ]

\* dynamic_defaults.ondecoration: the places in kw of the configured names
\* that are no parameter of func.
NothingUnexpected(func) == {}

Unexpected(func) ==
    { i \in 1..Len(kw) : kw[i][1] \notin parameters(signature(func)) }

\* What a decoration gave: a wrapper (outcome "wrapper"), or an exception
\* (outcome the exception's type, named what its message names).
Wrapper(kind, func, inst, outcome, named) ==
    [ kind |-> kind, func |-> func, inst |-> inst, outcome |-> outcome,
      named |-> named ]

Finished(fr) == fr.pc \in {"done", "raised"}

\* No call is under way.  The host program decorates then; with one thread
\* of control it also starts a call only then.
Idle == \A d \in 1..Len(frames) : Finished(frames[d])

\* The record of a call whose frame is gone: the host program has moved on
\* to its next call.
Gone ==
    [ w |-> 0, pos |-> << >>, kws |-> EmptyMap, parent |-> 0, child |-> 0,
      pc |-> "done", err |-> "none", at |-> "", ba |-> NoArguments, idx |-> 0,
      k |-> 0,
      upd |-> 0, cbs |-> << >>, events |-> << >>, invoked |-> FALSE,
      vals |-> EmptyMap ]

\* The frames the program can still reach: a callback of call d is handed
\* the BoundArguments of d or of a later call, so a finished call before
\* which every call has finished is reached by nothing.
Reachable(fs) ==
    [ c \in 1..Len(fs) |->
        IF \A d \in 1..c : Finished(fs[d]) THEN Gone ELSE fs[c] ]

\* @signature_decorator_factory(*callbacks, apply_defaults=...) def func
DecorateFunction(func) ==
    /\ decorator = "signature_decorator_factory"
    /\ Idle
    /\ Len(wrappers) < MaxWrappers
    /\ wrappers' = Append(wrappers, Wrapper("function", func, 0, "wrapper", << >>))
    /\ UNCHANGED << config, insts, frames >>

\* @instance def func, instance = SignatureDecorator(*callbacks, ...)
DecorateInstance(func) ==
    /\ decorator = "SignatureDecorator"
    /\ Idle
    /\ Len(wrappers) < MaxWrappers
    /\ IF Refuses(insts[1])
       THEN /\ wrappers' = Append(wrappers, Wrapper("instance", func, 1, "AttributeError", << >>))
            /\ UNCHANGED insts
       ELSE /\ insts' = [ insts EXCEPT ![1] = Applied(insts[1], func) ]
            /\ wrappers' = Append(wrappers, Wrapper("instance", func, 1, "wrapper", << >>))
    /\ UNCHANGED << config, frames >>

\* @SignatureDecorator.factory(*callbacks, ..., ondecoration=...) def func
\* and @dynamic_defaults(**kw) def func
DecorateFactory(func) ==
    /\ decorator \in {"SignatureDecorator.factory", "dynamic_defaults"}
    /\ Idle
    /\ Len(wrappers) < MaxWrappers
    /\ insts' = Append(insts, Applied(NewInstance, func))
    /\ wrappers' = Append(wrappers,
          IF decorator = "dynamic_defaults" /\ Unexpected(func) # {}
          THEN LET first == CHOOSE i \in Unexpected(func) :
                               \A j \in Unexpected(func) : i <= j
               IN  Wrapper("factory", func, Len(insts) + 1, "TypeError",
                           << Applied(NewInstance, func).func, kw[first][1] >>)
          ELSE Wrapper("factory", func, Len(insts) + 1, "wrapper", << >>))
    /\ UNCHANGED << config, frames >>


\* ------------------------------------------------------------------ calls
\* Frame c may take its next step: with one thread of control that is the
\* innermost unfinished call.
Runnable(c) ==
    /\ c \in 1..Len(frames)
    /\ ~Finished(frames[c])
    /\ threaded \/ \A d \in (c + 1)..Len(frames) : Finished(frames[d])

\* The signature inner binds against: the closure's sig in
\* signature_decorator_factory, self.signature in SignatureDecorator.
BindSignature(wr) ==
    IF wr.kind = "function" THEN wr.func ELSE insts[wr.inst].signature

\* inner(*args, **kw) up to and including  ba = sig.bind(*args, **kw).
NewFrame(w, pos, kws, parent) ==
    LET sig == BindSignature(wrappers[w])
        ok  == CanBind(signature(sig), pos, kws)
    IN  [ w |-> w, pos |-> pos, kws |-> kws, parent |-> parent, child |-> 0,
          pc |-> IF ok THEN "defaults" ELSE "raised",
          err |-> IF ok THEN "none" ELSE "TypeError",
          at |-> IF ok THEN "" ELSE "bind",
          ba |-> IF ok THEN [ sig |-> sig, arguments |-> bind(signature(sig), pos, kws) ]
                 ELSE NoArguments,
          idx |-> 0, k |-> 0, upd |-> 0,
          cbs |-> << >>, events |-> << >>, invoked |-> FALSE, vals |-> EmptyMap ]

\* self.boundarguments = <the new BoundArguments>, in SignatureDecorator only
\* and only when bind did not raise.
Forgets(w, fr, id) == insts

Remember(w, fr, id) ==
    IF wrappers[w].kind # "function" /\ fr.err = "none"
    THEN [ insts EXCEPT ![wrappers[w].inst].boundarguments = id ]
    ELSE insts

\* A call of a decorated function from the host program.
Call(w, n, kws) ==
    /\ Len(frames) < MaxCalls
    /\ threaded \/ Idle
    /\ wrappers[w].outcome = "wrapper"
    /\ LET fr == NewFrame(w, PosValues(n), kws, 0)
       IN  /\ frames' = Append(Reachable(frames), fr)
           /\ insts' = Remember(w, fr, Len(frames) + 1)
    /\ UNCHANGED << config, wrappers >>

\* if apply_defaults: ba.apply_defaults()
ApplyDefaults(c) ==
    /\ Runnable(c)
    /\ frames[c].pc = "defaults"
    /\ frames' = [ frames EXCEPT
          ![c].pc = "callbacks",
          ![c].idx = 1,
          ![c].ba.arguments =
              IF apply_defaults
              THEN apply_defaults_to(signature(frames[c].ba.sig), @)
              ELSE @ ]
    /\ UNCHANGED << config, insts, wrappers >>

\* The BoundArguments a callback of call c works on: the one it is passed,
\* or self.boundarguments of the instance it is passed.
Handed(c) ==
    LET wr == wrappers[frames[c].w]
    IN  IF wr.kind = "function" \/ ~apply_self THEN c
        ELSE insts[wr.inst].boundarguments

\* for callback in callbacks: the place of the callback after place i.
SkipsIndex(i) == i + 2

NextIndex(i) == i + 1

Event(op, on, name, val) == [ op |-> op, on |-> on, name |-> name, val |-> val ]

\* for callback in callbacks: callback(...)     for "set", "put", "get"
Callback(c) ==
    /\ Runnable(c)
    /\ frames[c].pc = "callbacks"
    /\ frames[c].idx <= Len(callbacks)
    /\ LET i   == frames[c].idx
           t   == Handed(c)
           cur == frames[t].ba.arguments
           ran == [ frames EXCEPT ![c].idx = NextIndex(i), ![c].cbs = Append(@, i) ]
       IN  CASE callbacks[i] = "set" ->
                  frames' =
                    IF "b" \in DOMAIN cur THEN ran
                    ELSE [ ran EXCEPT
                            ![t].ba.arguments = Put(@, "b", 99),
                            ![c].events = Append(@, Event("write", t, "b", 99)) ]
             [] callbacks[i] = "put" ->
                  frames' = [ ran EXCEPT
                            ![t].ba.arguments = Put(@, "b", 88),
                            ![c].events = Append(@, Event("write", t, "b", 88)) ]
             [] callbacks[i] = "get" ->
                  frames' = [ ran EXCEPT
                            ![c].events = Append(@, Event("read", t, "b", Get(cur, "b"))) ]
             [] callbacks[i] = "raise" ->
                  frames' = [ ran EXCEPT ![c].pc = "raised", ![c].err = "Exception",
                                         ![c].at = "callback" ]
             [] OTHER -> FALSE
    /\ UNCHANGED << config, insts, wrappers >>

\* A callback that calls the decorated function again (in such a call, and
\* once the calls of the run are used up, it returns without calling).
CallbackCalls(c, n, kws) ==
    /\ Runnable(c)
    /\ frames[c].pc = "callbacks"
    /\ frames[c].idx <= Len(callbacks)
    /\ callbacks[frames[c].idx] = "call"
    /\ IF Len(frames) < MaxCalls /\ frames[c].parent = 0
       THEN LET fr == NewFrame(frames[c].w, PosValues(n), kws, c)
            IN  /\ frames' = Append(
                      [ frames EXCEPT ![c].pc = "in callback",
                                      ![c].child = Len(frames) + 1,
                                      ![c].cbs = Append(@, frames[c].idx) ], fr)
                /\ insts' = Remember(frames[c].w, fr, Len(frames) + 1)
       ELSE /\ n = 0 /\ kws = EmptyMap
            /\ frames' = [ frames EXCEPT ![c].idx = NextIndex(@),
                                         ![c].cbs = Append(@, frames[c].idx) ]
            /\ UNCHANGED insts
    /\ UNCHANGED << config, wrappers >>

\* The call a callback made has ended: the callback returns, or the
\* exception passes through it and through inner.
CallbackReturns(c) ==
    /\ Runnable(c)
    /\ frames[c].pc = "in callback"
    /\ Finished(frames[frames[c].child])
    /\ frames' =
          IF frames[frames[c].child].pc = "raised"
          THEN [ frames EXCEPT ![c].pc = "raised", ![c].at = "callback",
                               ![c].err = frames[frames[c].child].err ]
          ELSE [ frames EXCEPT ![c].pc = "callbacks", ![c].idx = NextIndex(@) ]
    /\ UNCHANGED << config, insts, wrappers >>

\* return func(*ba.args, **ba.kwargs)
Invoke(c) ==
    /\ Runnable(c)
    /\ frames[c].pc = "callbacks"
    /\ frames[c].idx > Len(callbacks)
    /\ LET fr   == frames[c]
           func == wrappers[fr.w].func
           sig  == signature(fr.ba.sig)
       IN  frames' =
             IF CallOK(func, sig, fr.ba.arguments)
             THEN [ frames EXCEPT ![c].pc = "done", ![c].invoked = TRUE,
                                  ![c].vals = CallValues(func, sig, fr.ba.arguments) ]
             ELSE [ frames EXCEPT ![c].pc = "raised", ![c].err = "TypeError",
                                  ![c].at = "target" ]
    /\ UNCHANGED << config, insts, wrappers >>

\* --------------------------------------------------- dynamic_defaults.update
\* v(): what calling the configured value v gives: a returned value, or 0
\* when the call raises (v raises, or v is not callable).
Returns(v) ==
    CASE v = 50 -> {51, 52}
      [] v = 70 -> {71}
      [] OTHER -> {0}

\* try: ba.arguments[k] = v()  except: ba.arguments[k] = v
FilledWithConfigured(arguments, name, v, r) == Put(arguments, name, v)

FilledWhenReturned(arguments, name, v, r) ==
    IF r = 0 THEN arguments ELSE Put(arguments, name, r)

Filled(arguments, name, v, r) == Put(arguments, name, IF r = 0 THEN v ELSE r)

\* ba = sigdecor.boundarguments
UpdateBegins(c) ==
    /\ Runnable(c)
    /\ frames[c].pc = "callbacks"
    /\ frames[c].idx <= Len(callbacks)
    /\ callbacks[frames[c].idx] = "update"
    /\ frames' = [ frames EXCEPT ![c].pc = "update", ![c].k = 1,
                                 ![c].upd = Handed(c),
                                 ![c].cbs = Append(@, frames[c].idx) ]
    /\ UNCHANGED << config, insts, wrappers >>

\* One round of  for (k, v) in kw.items()  with a value that calls nothing.
UpdateItem(c, r) ==
    /\ Runnable(c)
    /\ frames[c].pc = "update"
    /\ frames[c].k <= Len(kw)
    /\ LET name == kw[frames[c].k][1]
           v    == kw[frames[c].k][2]
           t    == frames[c].upd
       IN  IF name \in DOMAIN frames[t].ba.arguments
           THEN /\ r = 0
                /\ frames' = [ frames EXCEPT ![c].k = @ + 1 ]
           ELSE /\ v # 70
                /\ r \in Returns(v)
                /\ frames' = [ frames EXCEPT
                      ![c].k = @ + 1,
                      ![t].ba.arguments = Filled(@, name, v, r),
                      ![c].events = IF v = 40 THEN @
                                    ELSE Append(@, Event("provider", t, name, r)) ]
    /\ UNCHANGED << config, insts, wrappers >>

\* v() with a provider that calls the decorated function again (in such a
\* call, and once the calls of the run are used up, it returns without
\* calling).
ProviderCalls(c, n, kws) ==
    /\ Runnable(c)
    /\ frames[c].pc = "update"
    /\ frames[c].k <= Len(kw)
    /\ kw[frames[c].k][2] = 70
    /\ kw[frames[c].k][1] \notin DOMAIN frames[frames[c].upd].ba.arguments
    /\ IF Len(frames) < MaxCalls /\ frames[c].parent = 0
       THEN LET fr == NewFrame(frames[c].w, PosValues(n), kws, c)
            IN  /\ frames' = Append(
                      [ frames EXCEPT ![c].pc = "in provider",
                                      ![c].child = Len(frames) + 1 ], fr)
                /\ insts' = Remember(frames[c].w, fr, Len(frames) + 1)
       ELSE /\ n = 0 /\ kws = EmptyMap
            /\ frames' = [ frames EXCEPT
                  ![c].k = @ + 1,
                  ![frames[c].upd].ba.arguments = Filled(@, kw[frames[c].k][1], 70, 71),
                  ![c].events = Append(@, Event("provider", frames[c].upd,
                                                kw[frames[c].k][1], 71)) ]
            /\ UNCHANGED insts
    /\ UNCHANGED << config, wrappers >>

\* The call the provider made has ended: the provider returns its value,
\* or the exception leaves v() and the bare except takes it.
ProviderReturns(c) ==
    /\ Runnable(c)
    /\ frames[c].pc = "in provider"
    /\ Finished(frames[frames[c].child])
    /\ LET name == kw[frames[c].k][1]
           t    == frames[c].upd
           r    == IF frames[frames[c].child].pc = "raised" THEN 0 ELSE 71
       IN  frames' = [ frames EXCEPT
                      ![c].pc = "update",
                      ![c].k = @ + 1,
                      ![t].ba.arguments = Filled(@, name, 70, r),
                      ![c].events = Append(@, Event("provider", t, name, r)) ]
    /\ UNCHANGED << config, insts, wrappers >>

\* ba.apply_defaults(), the last statement of update
UpdateEnds(c) ==
    /\ Runnable(c)
    /\ frames[c].pc = "update"
    /\ frames[c].k > Len(kw)
    /\ LET t == frames[c].upd
       IN  frames' = [ frames EXCEPT
                      ![c].pc = "callbacks",
                      ![c].idx = NextIndex(@),
                      ![t].ba.arguments =
                          apply_defaults_to(signature(frames[t].ba.sig), @) ]
    /\ UNCHANGED << config, insts, wrappers >>

\* A step of a call of a decorated function.
Step ==
    \/ \E c \in 1..Len(frames) : ApplyDefaults(c)
    \/ \E c \in 1..Len(frames) : Callback(c)
    \/ \E c \in 1..Len(frames), n \in 0..MaxPos, kws \in KeywordInputs : CallbackCalls(c, n, kws)
    \/ \E c \in 1..Len(frames) : CallbackReturns(c)
    \/ \E c \in 1..Len(frames) : Invoke(c)
    \/ \E c \in 1..Len(frames) : UpdateBegins(c)
    \/ \E c \in 1..Len(frames), r \in 0..99 : UpdateItem(c, r)
    \/ \E c \in 1..Len(frames), n \in 0..MaxPos, kws \in KeywordInputs : ProviderCalls(c, n, kws)
    \/ \E c \in 1..Len(frames) : ProviderReturns(c)
    \/ \E c \in 1..Len(frames) : UpdateEnds(c)

Next ==
    \/ \E func \in Funcs : DecorateFunction(func)
    \/ \E func \in Funcs : DecorateInstance(func)
    \/ \E func \in Funcs : DecorateFactory(func)
    \/ \E w \in 1..Len(wrappers), n \in 0..MaxPos, kws \in KeywordInputs : Call(w, n, kws)
    \/ Step

NextThreads ==
    \/ \E func \in Funcs : DecorateFactory(func)
    \/ \E w \in 1..Len(wrappers), n \in 0..MaxPos, kws \in KeywordInputs : Call(w, n, kws)
    \/ Step

Spec == Init /\ [][Next]_vars

SpecThreads == InitThreads /\ [][NextThreads]_vars

\* --------------------------------------------------------- defaultproperty
\* A class with two properties made by defaultproperty, x and y, and two
\* objects of it.  A value is a string; "None" is Python's None.
Objects == {"foo", "bar"}

Names == {"x", "y"}

Values == {"None", "v1", "v2"}

\* varname = "_" + name
varname(name) == CASE name = "x" -> "_x" [] name = "y" -> "_y"

\* func(self): what the decorated function returns; it reads env, which the
\* host program changes.
func(name, e) ==
    CASE name = "x" -> (IF e = "early" THEN "x1" ELSE "x2")
      [] name = "y" -> (IF e = "early" THEN "y1" ELSE "y2")

\* setattr(self, varname, value): the attributes of self afterwards.
setter(name, self, value) == Put(self, varname(name), value)

\* delattr(self, varname) raises AttributeError.
DeleterRaises(name, self) == varname(name) \notin DOMAIN self

\* delattr(self, varname): the attributes of self afterwards.
deleter(name, self) ==
    [ n \in DOMAIN self \ {varname(name)} |-> self[n] ]

innerNoneAsUnset(name, self, e) ==
    IF varname(name) \in DOMAIN self /\ self[varname(name)] # "None"
    THEN self[varname(name)] ELSE func(name, e)

\* try: return getattr(self, varname)
\* except AttributeError: return func(self, *args, **kw)
inner(name, self, e) ==
    IF varname(name) \in DOMAIN self THEN self[varname(name)] ELSE func(name, e)

\* An operation on a property: what it gave, whether a value was assigned
\* when it began and what env was then.
Operation(op, o, name, result, err, had) ==
    [ op |-> op, obj |-> o, name |-> name, result |-> result, err |-> err,
      had |-> had, env |-> env ]

\* Two new objects; the decorators are not in use.
InitProperty ==
    /\ attrs = [ o \in Objects |-> [ n \in {} |-> "" ] ]
    /\ env = "early"
    /\ assigned = [ o \in Objects |-> [ name \in Names |-> "unset" ] ]
    /\ last = Operation("none", "", "", "", "none", FALSE)
    /\ callbacks = << >> /\ apply_defaults = FALSE /\ apply_self = FALSE
    /\ decorator = "defaultproperty" /\ kw = << >>
    /\ insts = << >> /\ wrappers = << >> /\ frames = << >>
    /\ threaded = FALSE

\* o.name
Read(o, name) ==
    /\ last' = Operation("get", o, name, inner(name, attrs[o], env), "none",
                         assigned[o][name] # "unset")
    /\ UNCHANGED << attrs, env, assigned, decorators >>

\* o.name = value
Write(o, name, value) ==
    /\ attrs' = [ attrs EXCEPT ![o] = setter(name, @, value) ]
    /\ assigned' = [ assigned EXCEPT ![o][name] = value ]
    /\ last' = Operation("set", o, name, "", "none", assigned[o][name] # "unset")
    /\ UNCHANGED << env, decorators >>

\* del o.name
Clear(o, name) ==
    /\ IF DeleterRaises(name, attrs[o])
       THEN /\ last' = Operation("del", o, name, "", "AttributeError",
                                 assigned[o][name] # "unset")
            /\ UNCHANGED attrs
       ELSE /\ last' = Operation("del", o, name, "", "none",
                                 assigned[o][name] # "unset")
            /\ attrs' = [ attrs EXCEPT ![o] = deleter(name, @) ]
    /\ assigned' = [ assigned EXCEPT ![o][name] = "unset" ]
    /\ UNCHANGED << env, decorators >>

\* The host program changes what the decorated functions read.
Changes ==
    /\ env' = IF env = "early" THEN "late" ELSE "early"
    /\ UNCHANGED << attrs, assigned, last, decorators >>

NextProperty ==
    \/ \E o \in Objects, name \in Names : Read(o, name)
    \/ \E o \in Objects, name \in Names, value \in Values : Write(o, name, value)
    \/ \E o \in Objects, name \in Names : Clear(o, name)
    \/ Changes

SpecProperty == InitProperty /\ [][NextProperty]_vars

\* ------------------------------------------------------------- properties
\* The calls whose frame is still on record.
Calls == { c \in 1..Len(frames) : frames[c].w # 0 }

\* The function call c was meant for: the one its wrapper wraps.
Target(c) == wrappers[frames[c].w].func

\* The caller of c supplied parameter i of the target's own signature.
Supplied(c, i) ==
    LET sig == signature(Target(c))
    IN  \/ sig[i].name \in DOMAIN frames[c].kws
        \/ sig[i].kind = "pk" /\ i <= Len(frames[c].pos)

SuppliedValue(c, i) ==
    LET sig == signature(Target(c))
    IN  IF sig[i].name \in DOMAIN frames[c].kws
        THEN frames[c].kws[sig[i].name] ELSE frames[c].pos[i]

\* The place of parameter name in the target's own signature (0: none).
Place(c, name) ==
    LET sig == signature(Target(c))
    IN  IF \E i \in 1..Len(sig) : sig[i].name = name
        THEN CHOOSE i \in 1..Len(sig) : sig[i].name = name ELSE 0

\* C1: a SignatureDecorator instance that was applied to one function
\* raises AttributeError, and gives no wrapper, when it is applied to a
\* second function.
C1_SecondApplicationRejected ==
    \A i, j \in 1..Len(wrappers) :
        ( /\ i < j
          /\ wrappers[i].kind = "instance" /\ wrappers[j].kind = "instance"
          /\ wrappers[i].inst = wrappers[j].inst
          /\ wrappers[i].outcome = "wrapper"
          /\ wrappers[i].func # wrappers[j].func )
        => wrappers[j].outcome = "AttributeError"

\* C2: a call of a wrapper fails at binding exactly when its actual
\* arguments do not satisfy the signature of the function the wrapper wraps.
C2_BindsAgainstOwnSignature ==
    \A c \in Calls :
        (frames[c].at = "bind") <=>
            ~CanBind(signature(Target(c)), frames[c].pos, frames[c].kws)

\* C3: in every call the callbacks run in registration order, each at most
\* once, and all of them have run once the target is called; so a call
\* that binds and in which no callback raises runs each exactly once,
\* before the target.
C3_EveryCallbackOnceInOrder ==
    \A c \in Calls :
        /\ Len(frames[c].cbs) <= Len(callbacks)
        /\ \A i \in 1..Len(frames[c].cbs) : frames[c].cbs[i] = i
        /\ (frames[c].pc = "done" \/ frames[c].at = "target")
              => Len(frames[c].cbs) = Len(callbacks)
        /\ (Finished(frames[c]) /\ frames[c].at \notin {"bind", "callback"})
              => frames[c].cbs = [ i \in 1..Len(callbacks) |-> i ]

\* A second call from the host has run three callbacks and the target.
C3_Witness ==
    \E c \in Calls :
        /\ c > 1 /\ frames[c].parent = 0
        /\ frames[c].pc = "done" /\ frames[c].invoked
        /\ frames[c].cbs = << 1, 2, 3 >>

\* C4: when the first callback is about to run, with apply_defaults every
\* parameter of the function that has a declared default is in the bound
\* arguments, with that default if the caller did not supply it; without
\* apply_defaults no parameter the caller did not supply is in them.
C4_DefaultsBeforeFirstCallback ==
    \A c \in Calls :
        (frames[c].pc = "callbacks" /\ frames[c].cbs = << >>) =>
            LET sig  == signature(Target(c))
                args == frames[c].ba.arguments
            IN  \A i \in 1..Len(sig) :
                  IF apply_defaults
                  THEN sig[i].default # 0 =>
                         /\ sig[i].name \in DOMAIN args
                         /\ ~Supplied(c, i) => args[sig[i].name] = sig[i].default
                  ELSE ~Supplied(c, i) => sig[i].name \notin DOMAIN args

\* C5: what a callback of a call writes into that call's bound arguments is
\* what every later callback of the call reads, until a callback writes
\* again, and what the target gets for that parameter when no callback
\* writes again.
C5_WritesReachLaterCallbacksAndTarget ==
    \A c \in Calls :
        LET ev == frames[c].events
        IN  \A i \in 1..Len(ev) :
              (ev[i].op = "write" /\ ev[i].on = c) =>
                /\ \A j \in (i + 1)..Len(ev) :
                      ( /\ ev[j].op = "read"
                        /\ \A m \in (i + 1)..(j - 1) : ev[m].op # "write" )
                      => ev[j].val = ev[i].val
                /\ ( /\ frames[c].pc = "done"
                     /\ \A m \in (i + 1)..Len(ev) : ev[m].op # "write"
                     /\ Place(c, ev[i].name) # 0 )
                   => frames[c].vals[ev[i].name] = ev[i].val

\* The calls of the provider configured for name that call c made.
ProviderEvents(c, name) ==
    { i \in 1..Len(frames[c].events) :
        frames[c].events[i].op = "provider" /\ frames[c].events[i].name = name }

C7_UnknownNameRejectedAtDecoration ==
    decorator = "dynamic_defaults" =>
      \A j \in 1..Len(wrappers) :
        LET bad == { kw[i][1] : i \in 1..Len(kw) }
                      \ { signature(wrappers[j].func)[i].name :
                            i \in 1..Len(signature(wrappers[j].func)) }
        IN  bad # {} =>
              /\ wrappers[j].outcome = "TypeError"
              /\ Len(wrappers[j].named) = 2
              /\ wrappers[j].named[1] = wrappers[j].func
              /\ wrappers[j].named[2] \in bad
              /\ \A c \in 1..Len(frames) : frames[c].w # j

\* dynamic_defaults(a = ...) has refused a function without parameter a.
C7_Witness ==
    \E j \in 1..Len(wrappers) :
        /\ wrappers[j].outcome = "TypeError"
        /\ wrappers[j].named = << "g", "a" >>
        /\ frames = << >>

\* C8: with dynamic_defaults no failure of a configured value reaches the
\* caller; a parameter the caller left out whose configured value fails
\* (it raises, or it is not callable) reaches the target as the configured
\* value itself; the other configured parameters get their provider's
\* value and the other declared defaults are applied all the same.
C8_ProviderFailureFallsBack ==
    decorator = "dynamic_defaults" =>
      \A c \in Calls :
        /\ frames[c].at \notin {"callback", "target"}
        /\ frames[c].pc = "done" =>
             LET sig == signature(Target(c))
             IN  \A i \in 1..Len(sig) :
                   LET name == sig[i].name
                       conf == { k \in 1..Len(kw) : kw[k][1] = name }
                       made == ProviderEvents(c, name)
                   IN  ~Supplied(c, i) =>
                         /\ \A k \in conf :
                              IF kw[k][2] = 40
                                 \/ \E e \in made : frames[c].events[e].val = 0
                              THEN frames[c].vals[name] = kw[k][2]
                              ELSE \E e \in made :
                                      frames[c].vals[name] = frames[c].events[e].val
                         /\ conf = {} => frames[c].vals[name] = sig[i].default

\* The provider of b raised, the target got the provider itself for b and
\* the value the provider of c returned for c.
C8_Witness ==
    /\ decorator = "dynamic_defaults"
    /\ \E c \in Calls :
          /\ frames[c].pc = "done"
          /\ kw = << <<"b", 60>>, <<"c", 50>> >>
          /\ frames[c].vals["b"] = 60
          /\ frames[c].vals["c"] = 51


\* The calls bound through the SignatureDecorator state that call c uses.
BoundThrough(c) ==
    { d \in Calls :
        /\ wrappers[frames[d].w].inst = wrappers[frames[c].w].inst
        /\ frames[d].at # "bind" }

\* C10: a callback that is passed the SignatureDecorator state works on the
\* BoundArguments of the call that bound last through that state, which
\* need not be its own call; a callback that is passed the BoundArguments
\* works on those of its own call.
C10_HandedLatestBound ==
    \A c \in Calls :
        ~Finished(frames[c]) =>
            IF wrappers[frames[c].w].kind # "function" /\ apply_self
            THEN /\ Handed(c) \in BoundThrough(c)
                 /\ \A d \in BoundThrough(c) : d <= Handed(c)
            ELSE Handed(c) = c

\* A callback of a call of a function decorated through
\* SignatureDecorator.factory read the b of another call of that function,
\* which differs from the b its own call ran the target with.
C10_Witness ==
    \E c \in Calls : \E i \in 1..Len(frames[c].events) :
        LET e == frames[c].events[i]
        IN  /\ wrappers[frames[c].w].kind = "factory"
            /\ e.op = "read" /\ e.on # c
            /\ frames[e.on].w = frames[c].w
            /\ frames[c].pc = "done"
            /\ e.val # frames[c].vals["b"]

\* The same through dynamic_defaults.update: a call that left b out took
\* the BoundArguments of another call of the function, in which b was
\* supplied, so it called no provider and its target ran with the declared
\* default.
C10_UpdateWitness ==
    /\ decorator = "dynamic_defaults"
    /\ \E c \in Calls :
          /\ frames[c].upd # c /\ frames[c].upd # 0
          /\ frames[c].pc = "done"
          /\ frames[c].events = << >>
          /\ "b" \notin DOMAIN frames[c].kws /\ Len(frames[c].pos) < Place(c, "b")
          /\ frames[c].vals["b"] \in {2, 4}

\* C9: on every object and for every property made by defaultproperty, the
\* attribute "_" + name is set exactly when a value was assigned and not
\* cleared since, and it holds the value assigned last; a read gives that
\* value (None included) when there is one, and what the decorated function
\* returns at that read when there is none, and sets nothing; a clear with
\* nothing assigned raises AttributeError, a clear with a value assigned
\* raises nothing, and after either nothing is assigned.
C9_OverrideFollowsAssignments ==
    decorator = "defaultproperty" =>
      /\ \A o \in Objects : \A name \in Names :
            /\ (varname(name) \in DOMAIN attrs[o]) <=> (assigned[o][name] # "unset")
            /\ varname(name) \in DOMAIN attrs[o] =>
                  attrs[o][varname(name)] = assigned[o][name]
      /\ last.op = "get" =>
            /\ last.err = "none"
            /\ last.had = (assigned[last.obj][last.name] # "unset")
            /\ last.result = IF last.had THEN assigned[last.obj][last.name]
                                         ELSE func(last.name, last.env)
      /\ last.op = "del" =>
            /\ (last.err = "AttributeError") <=> ~last.had
            /\ varname(last.name) \notin DOMAIN attrs[last.obj]
      /\ last.op = "set" => last.err = "none"

\* None was assigned to x of foo and a read of it has given None, while y
\* of foo and x of bar are not set.
C9_Witness ==
    /\ decorator = "defaultproperty"
    /\ last.op = "get" /\ last.obj = "foo" /\ last.name = "x"
    /\ last.result = "None" /\ assigned["foo"]["x"] = "None"
    /\ DOMAIN attrs["foo"] = {"_x"}
    /\ DOMAIN attrs["bar"] = {}

\* The second of two clears in a row has raised.
C9_ClearWitness ==
    /\ decorator = "defaultproperty"
    /\ last.op = "del" /\ last.obj = "bar" /\ last.name = "y"
    /\ last.err = "AttributeError"

====
